---- MODULE Spec2Model ----
(***************************************************************************)
(* Request relay of the ConAg marketing forecaster backend.                *)
(*                                                                         *)
(* The repository holds two revisions of the Express server: src/server.js *)
(* ("FINAL VERSION v9") and src/unnamed/part_000 (an earlier server.js).   *)
(* Either file is a complete server; `deployed` says which one is running. *)
(* A request passes the CORS middleware, then its route handler.  Every    *)
(* handler is an async function: it runs synchronously up to an `await`,   *)
(* and resumes when the awaited outbound call settles (resolves or         *)
(* rejects).  Each action below is one such synchronous segment.           *)
(* Handlers share no mutable state, so one request in flight shows every   *)
(* behaviour of a handler.                                                 *)
(***************************************************************************)
EXTENDS Integers, Sequences, FiniteSets, TLC

\* Deepest nesting of the JSON documents the upstream model API is taken to send.
MaxDepth == 2

VARIABLES
    deployed,        \* "server.js" or "part_000": the file that is running
    asyncRejection,  \* what the router does with a rejected async handler
    req,             \* the request in flight: route, Origin header, JSON body
    pc,              \* position of the request: idle, cors, handler, an await, done
    handlerRan,      \* TRUE once the route handler's code has started
    outbound,        \* outbound calls issued for req, in order
    settled,         \* outcomes of the outbound calls that have settled, in order
    geminiResponse,  \* <<response>> once fetch has resolved, else << >>
    console,         \* lines written by console.log / console.error for req
    responses        \* HTTP responses written for req, in order

vars == <<deployed, asyncRejection, req, pc, handlerRan, outbound, settled,
          geminiResponse, console, responses>>

----------------------------------------------------------------------------
(* JavaScript values of the request body and headers.                       *)

Undefined == [type |-> "undefined", val |-> ""]
Str(s) == [type |-> "string", val |-> s]
Bool(b) == [type |-> "boolean", val |-> IF b THEN "true" ELSE "false"]
Object(tag) == [type |-> "object", val |-> tag]

\* JavaScript truthiness, as used by `!x` and `a && b`.
Truthy(x) ==
    CASE x.type = "undefined" -> FALSE
      [] x.type = "string"    -> x.val # ""
      [] x.type = "boolean"   -> x.val = "true"
      [] OTHER                -> TRUE

----------------------------------------------------------------------------
(* JSON documents: values, their text (a sequence of tokens), and the two   *)
(* conversions the proxy applies to the upstream body: Response.json()      *)
(* parses the text, res.json() writes a value back as compact text.         *)

Num == [t |-> "num", s |-> "1", c |-> << >>]
StrV(text) == [t |-> "str", s |-> text, c |-> << >>]
EmptyObj == [t |-> "obj", s |-> "", c |-> << >>]
ObjOf(key, v) == [t |-> "obj", s |-> key, c |-> <<v>>]
SyntaxError == [t |-> "SyntaxError", s |-> "", c |-> << >>]
Html(text) == [t |-> "html", s |-> text, c |-> << >>]

Tok(k, s) == [k |-> k, s |-> s]
LBrace == Tok("{", "")
RBrace == Tok("}", "")
Ws == Tok("ws", "")
Lt == Tok("<", "")

RECURSIVE Stringify(_)
Stringify(v) ==
    CASE v.t = "num" -> <<Tok("num", v.s)>>
      [] v.t = "str" -> <<Tok("str", v.s)>>
      [] v.t = "obj" /\ v.c = << >> -> <<LBrace, RBrace>>
      [] v.t = "obj" /\ v.c # << >> ->
            <<LBrace, Tok("key", v.s)>> \o Stringify(v.c[1]) \o <<RBrace>>
      [] OTHER -> <<Lt, Tok("str", v.s)>>

RECURSIVE StripWs(_)
StripWs(raw) ==
    IF raw = << >> THEN << >>
    ELSE IF Head(raw).k = "ws" THEN StripWs(Tail(raw))
    ELSE <<Head(raw)>> \o StripWs(Tail(raw))

RECURSIVE ParseTokens(_)
ParseTokens(t) ==
    IF Len(t) = 1 /\ t[1].k = "num" THEN Num
    ELSE IF Len(t) = 1 /\ t[1].k = "str" THEN StrV(t[1].s)
    ELSE IF Len(t) = 2 /\ t[1].k = "{" /\ t[2].k = "}" THEN EmptyObj
    ELSE IF Len(t) >= 4 /\ t[1].k = "{" /\ t[2].k = "key" /\ t[Len(t)].k = "}"
         THEN LET inner == ParseTokens(SubSeq(t, 3, Len(t) - 1))
              IN  IF inner = SyntaxError THEN SyntaxError ELSE ObjOf(t[2].s, inner)
    ELSE SyntaxError

ParseJson(raw) == ParseTokens(StripWs(raw))

\* The same document written with insignificant whitespace after every token.
RECURSIVE Pretty(_)
Pretty(toks) ==
    IF toks = << >> THEN << >> ELSE <<Head(toks), Ws>> \o Pretty(Tail(toks))

Message(text) == ObjOf("message", StrV(text))
ErrorBody(text) == ObjOf("error", Message(text))

----------------------------------------------------------------------------
(* Inputs: the requests a client may send and what the collaborators may    *)
(* answer.                                                                  *)

allowedOrigins == {"https://conagmarketing.com", "http://localhost:3000"}

Origins ==
    {Undefined, Str(""), Str("https://evil.example")} \cup {Str(o) : o \in allowedOrigins}

Body(userEmail, serviceInputs, prompt, isJsonOutput, schema) ==
    [userEmail |-> userEmail, serviceInputs |-> serviceInputs, prompt |-> prompt,
     isJsonOutput |-> isJsonOutput, schema |-> schema]

UsageBodies ==
    { Body(e, s, Undefined, Undefined, Undefined) :
        e \in {Undefined, Str(""), Str("dealer@example.com")},
        s \in {Undefined, Object("serviceInputs")} }

CompletionBodies ==
    { Body(Undefined, Undefined, p, j, s) :
        p \in {Undefined, Str(""), Str("Summarise my plan")},
        j \in {Undefined, Bool(FALSE), Bool(TRUE)},
        s \in {Undefined, Object("schema")} }

NoRequest == [route |-> "none", origin |-> Undefined,
              body |-> Body(Undefined, Undefined, Undefined, Undefined, Undefined)]

Requests ==
    [route : {"log", "report"}, origin : Origins, body : UsageBodies]
    \cup [route : {"gemini"}, origin : Origins, body : CompletionBodies]

RECURSIVE JsonValues(_)
JsonValues(d) ==
    IF d = 0 THEN {Num, StrV("quota exceeded"), EmptyObj}
    ELSE JsonValues(d - 1) \cup {ObjOf("error", v) : v \in JsonValues(d - 1)}

\* Bodies the upstream may send: JSON compact or with whitespace, an empty
\* body, an HTML page, a JSON document cut short.
RawBodies ==
    {Stringify(v) : v \in JsonValues(MaxDepth)}
    \cup {Pretty(Stringify(v)) : v \in JsonValues(MaxDepth)}
    \cup {<< >>, <<Lt>>, <<LBrace>>}

UpstreamStatuses == {200, 201, 400, 429, 500, 503}

\* Mutant: only 200 counts as success.
Ok_Only200(status) == status = 200

\* node-fetch's Response.ok
Ok(status) == status >= 200 /\ status <= 299

----------------------------------------------------------------------------
Init ==
    /\ deployed \in {"server.js", "part_000"}
    /\ asyncRejection \in {"unhandled", "next(err)"}
    /\ req = NoRequest
    /\ pc = "idle"
    /\ handlerRan = FALSE
    /\ outbound = << >>
    /\ settled = << >>
    /\ geminiResponse = << >>
    /\ console = << >>
    /\ responses = << >>

Config == <<deployed, asyncRejection>>

\* A request arrives (the previous one, if any, has finished).
Receive ==
    /\ pc \in {"idle", "done"}
    /\ \E r \in Requests : req' = r
    /\ pc' = "cors"
    /\ handlerRan' = FALSE
    /\ outbound' = << >>
    /\ settled' = << >>
    /\ geminiResponse' = << >>
    /\ console' = << >>
    /\ responses' = << >>
    /\ UNCHANGED Config

----------------------------------------------------------------------------
(* Plumbing shared by the handlers.                                         *)

Call(api, arg) == outbound' = Append(outbound, [api |-> api, arg |-> arg])
Settle(api, ok) == settled' = Append(settled, [api |-> api, ok |-> ok])
Respond(status, body) == responses' = Append(responses, [status |-> status, body |-> body])
Log(line) == console' = Append(console, line)
\* Lines only server.js writes; part_000 has no such console call.
OnlyServerJs(lines) == IF deployed = "server.js" THEN lines ELSE << >>

----------------------------------------------------------------------------
(* CORS.  server.js installs cors(corsOptions) with an origin callback;     *)
(* part_000 installs cors() with the package defaults, which lets every     *)
(* request through to the router.                                           *)

corsOptionsOrigin(origin) ==
    (origin.type = "string" /\ origin.val \in allowedOrigins) \/ ~Truthy(origin)

corsDefault(origin) == TRUE

OriginAllowed(origin) ==
    IF deployed = "server.js" THEN corsOptionsOrigin(origin) ELSE corsDefault(origin)

\* callback(new Error(...)) makes the middleware call next(err): the router skips
\* the route handler and the framework's error handler answers 500.
CorsMiddleware ==
    /\ pc = "cors"
    /\ IF OriginAllowed(req.origin)
       THEN /\ pc' = "handler"
            /\ UNCHANGED responses
       ELSE /\ Respond(500, Html("Error: Not allowed by CORS"))
            /\ pc' = "done"
    /\ UNCHANGED <<Config, req, handlerRan, outbound, settled, geminiResponse, console>>

----------------------------------------------------------------------------
(* Endpoint 1: POST /api/log-forecast-usage                                 *)

LoggedSuccessfully == [status |-> 200, body |-> Message("Data logged successfully")]

\* Mutant: the catch block of the Google Sheets try answers 500.
SheetsBlockEnds_SurfacesFailure(ok) ==
    /\ Log(IF ok THEN "Google Sheet updated" ELSE "Google Sheets Error")
    /\ responses' = Append(responses,
          IF ok THEN LoggedSuccessfully
          ELSE [status |-> 500, body |-> Message("Data logged successfully")])
    /\ pc' = "done"

\* The end of the Google Sheets try/catch and the unconditional response after it.
SheetsBlockEnds(ok) ==
    /\ Log(IF ok THEN "Google Sheet updated" ELSE "Google Sheets Error")
    /\ responses' = Append(responses, LoggedSuccessfully)
    /\ pc' = "done"

\* The first outbound call of the Google Sheets block.
SheetsBlockBegins ==
    IF deployed = "server.js"
    THEN Call("loadInfo", Undefined) /\ pc' = "await loadInfo"
    ELSE Call("useServiceAccountAuth", Undefined) /\ pc' = "await useServiceAccountAuth"

\* Mutant: the catch block of the Brevo try answers and returns.
AfterBrevoBlock_ReturnsOnError(ok) ==
    IF ok
    THEN /\ Log("Brevo contact created/updated.")
         /\ SheetsBlockBegins
         /\ UNCHANGED responses
    ELSE /\ Log("Brevo API Error")
         /\ responses' = Append(responses, LoggedSuccessfully)
         /\ pc' = "done"
         /\ UNCHANGED outbound

\* The end of the Brevo try/catch: whatever the outcome, execution falls through
\* to the Google Sheets block.
AfterBrevoBlock(ok) ==
    /\ Log(IF ok THEN "Brevo contact created/updated." ELSE "Brevo API Error")
    /\ SheetsBlockBegins
    /\ UNCHANGED responses

LogForecastUsage ==
    /\ pc = "handler" /\ req.route = "log"
    /\ handlerRan' = TRUE
    /\ Log("Logging endpoint called")
    /\ Call("createContact", req.body.userEmail)
    /\ pc' = "await createContact"
    /\ UNCHANGED <<Config, req, settled, geminiResponse, responses>>

CreateContactSettles ==
    /\ pc = "await createContact"
    /\ \E ok \in BOOLEAN :
          /\ Settle("createContact", ok)
          /\ AfterBrevoBlock(ok)
    /\ UNCHANGED <<Config, req, handlerRan, geminiResponse>>

\* part_000 only: google-spreadsheet v3 authenticates per request.
UseServiceAccountAuthSettles ==
    /\ pc = "await useServiceAccountAuth"
    /\ \E ok \in BOOLEAN :
          /\ Settle("useServiceAccountAuth", ok)
          /\ IF ok
             THEN /\ Call("loadInfo", Undefined)
                  /\ pc' = "await loadInfo"
                  /\ UNCHANGED <<console, responses>>
             ELSE /\ SheetsBlockEnds(FALSE)
                  /\ UNCHANGED outbound
    /\ UNCHANGED <<Config, req, handlerRan, geminiResponse>>

\* Building newRow reads scenarioData.serviceInputs.emailSends in server.js: a
\* TypeError when serviceInputs is undefined.  part_000's row has no such field.
NewRowThrows(scenarioData) ==
    deployed = "server.js" /\ scenarioData.serviceInputs.type = "undefined"

LoadInfoSettles ==
    /\ pc = "await loadInfo"
    /\ \E ok \in BOOLEAN :
          /\ Settle("loadInfo", ok)
          /\ IF ok /\ ~NewRowThrows(req.body)
             THEN /\ Call("addRow", req.body.userEmail)
                  /\ pc' = "await addRow"
                  /\ UNCHANGED <<console, responses>>
             ELSE /\ SheetsBlockEnds(FALSE)
                  /\ UNCHANGED outbound
    /\ UNCHANGED <<Config, req, handlerRan, geminiResponse>>

AddRowSettles ==
    /\ pc = "await addRow"
    /\ \E ok \in BOOLEAN :
          /\ Settle("addRow", ok)
          /\ SheetsBlockEnds(ok)
    /\ UNCHANGED <<Config, req, handlerRan, outbound, geminiResponse>>

----------------------------------------------------------------------------
(* Endpoint 2: POST /api/send-forecast-report                               *)

\* Mutant: the presence check is dropped.
MissingReportData_Never(reportData) == FALSE

MissingReportData(reportData) == ~Truthy(reportData.userEmail)

MissingReportResponse ==
    [status |-> 400,
     body |-> Message(IF deployed = "server.js" THEN "Missing report data."
                      ELSE "Missing report data or user email.")]

\* The template literal reads reportData.serviceInputs.emailSends: a TypeError
\* when serviceInputs is undefined.
RenderThrows(reportData) == reportData.serviceInputs.type = "undefined"

\* Mutant: the catch block answers like the success path.
ReportResponse_Always200(ok) ==
    [status |-> 200, body |-> Message("Report emailed successfully!")]

ReportResponse(ok) ==
    IF ok
    THEN [status |-> 200, body |-> Message("Report emailed successfully!")]
    ELSE [status |-> 500,
          body |-> Message(IF deployed = "server.js"
                           THEN "A server error occurred while sending the email."
                           ELSE "There was an error sending your report.")]

\* An exception that leaves an async handler rejects its promise.  The router
\* either never learns of it (no response is written) or passes it to next(err),
\* and the framework's error handler answers 500: it depends on the router's
\* major version, which the repository does not pin.
HandlerRejects ==
    /\ pc' = "done"
    /\ IF asyncRejection = "unhandled"
       THEN UNCHANGED responses
       ELSE Respond(500, Html("TypeError"))

SendForecastReport ==
    /\ pc = "handler" /\ req.route = "report"
    /\ handlerRan' = TRUE
    /\ IF MissingReportData(req.body)
       THEN /\ responses' = Append(responses, MissingReportResponse)
            /\ pc' = "done"
            /\ console' = console \o OnlyServerJs(<<"Email endpoint called">>)
            /\ UNCHANGED outbound
       ELSE IF RenderThrows(req.body)
       THEN IF deployed = "server.js"
            THEN \* the template is rendered inside the try block
                 /\ console' = console \o <<"Email endpoint called", "Brevo Email Error">>
                 /\ responses' = Append(responses, ReportResponse(FALSE))
                 /\ pc' = "done"
                 /\ UNCHANGED outbound
            ELSE \* the template is rendered before the try block
                 /\ HandlerRejects
                 /\ UNCHANGED <<outbound, console>>
       ELSE /\ Call("sendTransacEmail", req.body.userEmail)
            /\ pc' = "await sendTransacEmail"
            /\ console' = console \o OnlyServerJs(<<"Email endpoint called">>)
            /\ UNCHANGED responses
    /\ UNCHANGED <<Config, req, settled, geminiResponse>>

SendTransacEmailSettles ==
    /\ pc = "await sendTransacEmail"
    /\ \E ok \in BOOLEAN :
          /\ Settle("sendTransacEmail", ok)
          /\ console' = console \o (IF ok THEN OnlyServerJs(<<"Detailed email sent successfully.">>)
                                      ELSE <<"Brevo Email Error">>)
          /\ responses' = Append(responses, ReportResponse(ok))
    /\ pc' = "done"
    /\ UNCHANGED <<Config, req, handlerRan, outbound, geminiResponse>>

----------------------------------------------------------------------------
(* Endpoint 3: POST /api/gemini-proxy                                       *)

PromptRequired == [status |-> 400, body |-> ErrorBody("Prompt is required.")]

\* Mutant: generationConfig is attached on the flag alone.
BuildPayload_ConfigOnFlag(prompt, isJsonOutput, schema) ==
    [contents |-> <<[role |-> "user", parts |-> <<[text |-> prompt.val]>>]>>,
     generationConfig |->
        IF Truthy(isJsonOutput)
        THEN <<[responseMimeType |-> "application/json", responseSchema |-> schema]>>
        ELSE << >>]

BuildPayload(prompt, isJsonOutput, schema) ==
    [contents |-> <<[role |-> "user", parts |-> <<[text |-> prompt.val]>>]>>,
     generationConfig |->
        IF Truthy(isJsonOutput) /\ Truthy(schema)
        THEN <<[responseMimeType |-> "application/json", responseSchema |-> schema]>>
        ELSE << >>]

CriticalError ==
    [status |-> 500,
     body |-> ErrorBody(IF deployed = "server.js"
                        THEN "A critical error occurred on the backend while contacting the AI service."
                        ELSE "Error contacting AI service.")]

\* Mutant: an upstream error is answered with 500 instead of the upstream's status.
RelayUpstream_ErrorAs500(upstream, data) ==
    IF ~Ok(upstream.status)
    THEN [status |-> 500, body |-> data]
    ELSE [status |-> 200, body |-> data]

\* Mutant: the success path passes the upstream's status on, like the error path.
RelayUpstream_PassesStatus(upstream, data) ==
    [status |-> upstream.status, body |-> data]

\* What the handler writes once the upstream body has been parsed into `data`.
RelayUpstream(upstream, data) ==
    IF ~Ok(upstream.status)
    THEN [status |-> upstream.status, body |-> data]
    ELSE [status |-> 200, body |-> data]

GeminiProxy ==
    /\ pc = "handler" /\ req.route = "gemini"
    /\ handlerRan' = TRUE
    /\ IF ~Truthy(req.body.prompt)
       THEN /\ responses' = Append(responses, PromptRequired)
            /\ pc' = "done"
            /\ UNCHANGED outbound
       ELSE /\ Call("fetch", BuildPayload(req.body.prompt, req.body.isJsonOutput,
                                          req.body.schema))
            /\ pc' = "await fetch"
            /\ UNCHANGED responses
    /\ console' = console \o OnlyServerJs(<<"AI proxy endpoint called.">>)
    /\ UNCHANGED <<Config, req, settled, geminiResponse>>

\* fetch rejects when no response arrives (DNS, connection refused, reset), and
\* resolves with the response for every status the upstream sends.
FetchSettles ==
    /\ pc = "await fetch"
    /\ \/ /\ Settle("fetch", FALSE)
          /\ Log("Fatal error in Gemini Proxy")
          /\ responses' = Append(responses, CriticalError)
          /\ pc' = "done"
          /\ UNCHANGED geminiResponse
       \/ /\ \E st \in UpstreamStatuses, raw \in RawBodies :
                geminiResponse' = <<[status |-> st, raw |-> raw]>>
          /\ Settle("fetch", TRUE)
          /\ pc' = "await json"
          /\ UNCHANGED <<console, responses>>
    /\ UNCHANGED <<Config, req, handlerRan, outbound>>

\* geminiResponse.json() rejects when the body stream breaks or the text is not
\* JSON; both land in the handler's catch block.
ResponseJsonSettles ==
    /\ pc = "await json"
    /\ \E streamOk \in BOOLEAN :
          LET data == IF streamOk THEN ParseJson(geminiResponse[1].raw) ELSE SyntaxError
          IN  IF data = SyntaxError
              THEN /\ Settle("json", FALSE)
                   /\ Log("Fatal error in Gemini Proxy")
                   /\ responses' = Append(responses, CriticalError)
              ELSE /\ Settle("json", TRUE)
                   /\ console' = console \o OnlyServerJs(
                          IF Ok(geminiResponse[1].status)
                          THEN <<"Successfully received AI response.">>
                          ELSE <<"Error from Gemini API">>)
                   /\ responses' = Append(responses, RelayUpstream(geminiResponse[1], data))
    /\ pc' = "done"
    /\ UNCHANGED <<Config, req, handlerRan, outbound, geminiResponse>>

----------------------------------------------------------------------------
Next ==
    \/ Receive
    \/ CorsMiddleware
    \/ LogForecastUsage
    \/ CreateContactSettles
    \/ UseServiceAccountAuthSettles
    \/ LoadInfoSettles
    \/ AddRowSettles
    \/ SendForecastReport
    \/ SendTransacEmailSettles
    \/ GeminiProxy
    \/ FetchSettles
    \/ ResponseJsonSettles

Spec == Init /\ [][Next]_vars

----------------------------------------------------------------------------
(* Vocabulary of the properties.                                            *)

Finished == pc = "done" /\ handlerRan
Issued(api) == \E i \in 1..Len(outbound) : outbound[i].api = api
SettledAs(api, ok) == \E i \in 1..Len(settled) : settled[i].api = api /\ settled[i].ok = ok
IsMessage(body) == body.t = "obj" /\ body.s = "message" /\ Len(body.c) = 1 /\ body.c[1].t = "str"
IsError(body) == body.t = "obj" /\ body.s = "error" /\ Len(body.c) = 1 /\ IsMessage(body.c[1])
IsGeneric500(r) == r.status = 500 /\ IsError(r.body)
Upstream == geminiResponse[1]
Is2xx(status) == status \in 200..299
\* The upstream body arrived whole and is JSON.
UpstreamJson ==
    /\ geminiResponse # << >>
    /\ SettledAs("json", TRUE)
WireText(r) == Stringify(r.body)

----------------------------------------------------------------------------
\* C1: every request handled by POST /api/log-forecast-usage is answered with
\* status 200 and the body {message: 'Data logged successfully'}, whatever the
\* outcomes of createContact, loadInfo and addRow; nothing else is ever written.
C1_LogUsageAlwaysSucceeds ==
    (req.route = "log" /\ handlerRan) =>
        IF pc = "done"
        THEN responses = <<[status |-> 200, body |-> Message("Data logged successfully")]>>
        ELSE responses = << >>

C1_Witness_BothSinksFailed ==
    /\ req.route = "log" /\ Finished
    /\ SettledAs("createContact", FALSE)
    /\ SettledAs("addRow", FALSE)
    /\ Len(responses) = 1 /\ responses[1].status = 200

\* C2: a request lacking its required field is answered 400 and makes no outbound
\* call: send-forecast-report without userEmail answers 400 with a {message} body,
\* gemini-proxy without a non-empty prompt answers 400 with an {error:{message}}
\* body.
C2_MissingFieldIs400WithoutCall ==
    /\ (req.route = "report" /\ ~Truthy(req.body.userEmail)) =>
          /\ outbound = << >>
          /\ Finished => /\ Len(responses) = 1
                         /\ responses[1].status = 400
                         /\ IsMessage(responses[1].body)
    /\ (req.route = "gemini" /\ ~Truthy(req.body.prompt)) =>
          /\ outbound = << >>
          /\ Finished => /\ Len(responses) = 1
                         /\ responses[1].status = 400
                         /\ IsError(responses[1].body)

C2_Witness_ReportWithoutEmail ==
    /\ req.route = "report" /\ Finished
    /\ req.body.userEmail = Undefined
    /\ req.body.serviceInputs # Undefined
    /\ Len(responses) = 1 /\ responses[1].status = 400 /\ outbound = << >>

\* C3: when the upstream answers with a non-2xx status and a JSON body, the proxy
\* answers with that status and with a body that is the same JSON document.
C3_UpstreamErrorRelayed ==
    (req.route = "gemini" /\ Finished /\ UpstreamJson /\ ~Is2xx(Upstream.status)) =>
        /\ Len(responses) = 1
        /\ responses[1].status = Upstream.status
        /\ ParseJson(WireText(responses[1])) = ParseJson(Upstream.raw)

C3_Witness_Relayed429 ==
    /\ req.route = "gemini" /\ Finished /\ UpstreamJson
    /\ Upstream.status = 429
    /\ Upstream.raw = Pretty(Stringify(ObjOf("error", StrV("quota exceeded"))))
    /\ Len(responses) = 1 /\ responses[1].status = 429

C6_ReportStatusFollowsProvider ==
    (req.route = "report" /\ Truthy(req.body.userEmail)) =>
        /\ SettledAs("sendTransacEmail", TRUE) =>
              /\ Len(responses) = 1
              /\ responses[1].status = 200 /\ IsMessage(responses[1].body)
        /\ SettledAs("sendTransacEmail", FALSE) =>
              /\ Len(responses) = 1
              /\ responses[1].status = 500 /\ IsMessage(responses[1].body)
        /\ \A i \in 1..Len(responses) :
              responses[i].status = 200 => SettledAs("sendTransacEmail", TRUE)

C6_Witness_ProviderFailed ==
    /\ req.route = "report" /\ Finished
    /\ SettledAs("sendTransacEmail", FALSE)
    /\ Len(responses) = 1 /\ responses[1].status = 500

\* C7: the payload sent upstream carries the prompt as the single 'user' turn, and
\* carries generationConfig {responseMimeType: 'application/json', responseSchema:
\* schema} if and only if isJsonOutput is truthy and a schema was supplied.
C7_PayloadShape ==
    \A i \in 1..Len(outbound) :
        outbound[i].api = "fetch" =>
            LET payload == outbound[i].arg
                wanted == Truthy(req.body.isJsonOutput) /\ req.body.schema.type # "undefined"
            IN  /\ Len(payload.contents) = 1
                /\ payload.contents[1].role = "user"
                /\ payload.contents[1].parts = <<[text |-> req.body.prompt.val]>>
                /\ payload.generationConfig # << >> <=> wanted
                /\ wanted => payload.generationConfig =
                      <<[responseMimeType |-> "application/json",
                         responseSchema |-> req.body.schema]>>

C7_Witness_FlagWithoutSchema ==
    /\ req.route = "gemini" /\ Issued("fetch")
    /\ req.body.isJsonOutput = Bool(TRUE) /\ req.body.schema = Undefined
    /\ outbound[1].arg.generationConfig = << >>

\* C8: handler code of the three routes runs only for a request that carries no
\* origin (no Origin header, or one with no value) or whose Origin is in the
\* allow-list; for any other request no handler runs and no outbound call is made.
C8_HandlersBehindAllowList ==
    LET listed == req.origin.type = "string" /\ req.origin.val \in allowedOrigins
        absent == req.origin.type = "undefined" \/ req.origin = Str("")
    IN  ~(listed \/ absent) => (~handlerRan /\ outbound = << >>)

\* C9: the CRM write and the spreadsheet append are attempted independently: the
\* CRM call is issued first for every request, the spreadsheet block is entered as
\* soon as the CRM call has settled, whether it succeeded or failed, and whether
\* addRow is then issued depends on the spreadsheet's own calls and on the row,
\* never on the CRM outcome.
C9_SinksAttemptedIndependently ==
    (req.route = "log" /\ handlerRan) =>
        LET sheetsEntered == IF deployed = "server.js" THEN Issued("loadInfo")
                             ELSE Issued("useServiceAccountAuth")
        IN  /\ outbound[1].api = "createContact"
            /\ (SettledAs("createContact", TRUE) \/ SettledAs("createContact", FALSE))
                  => sheetsEntered
            /\ pc = "done" =>
                  (Issued("addRow") <=>
                      /\ SettledAs("loadInfo", TRUE)
                      /\ ~(deployed = "server.js" /\ req.body.serviceInputs = Undefined))

C9_Witness_SheetsAfterCrmFailure ==
    /\ req.route = "log" /\ Finished
    /\ SettledAs("createContact", FALSE)
    /\ Issued("addRow") /\ SettledAs("addRow", TRUE)

\* C10: every request that reaches a handler receives exactly one HTTP response on
\* every control path (never none, never two) once its outbound calls have
\* settled, also when an exception is raised before any outbound call.
C10_ExactlyOneResponse ==
    /\ Len(responses) <= 1
    /\ Finished => Len(responses) = 1

====
